---- MODULE Spec2Model ----
(***************************************************************************)
(* CVision (src/app.py): a Streamlit script that loads an uploaded resume, *)
(* builds a prompt, calls an LLM once and partitions the Markdown answer   *)
(* on literal markers.                                                     *)
(*                                                                         *)
(* Text is modelled as a sequence of characters, each character a TLA+     *)
(* string.  The emoji of the source are written with ASCII names:          *)
(*   "CHECK" = U+2705, "CROSS" = U+274C, "BULB" = U+1F4A1,                 *)
(*   "CHART" = U+1F4CA, "BULLET" = U+2022.                                 *)
(* "Q" stands for the tail "<U+1F50D> Resume vs Job Description Skills"    *)
(* of the comparison heading, which follows "### ".                        *)
(***************************************************************************)
EXTENDS Integers, Sequences, FiniteSets, TLC

VARIABLES
    pc,               \* position of the current script run inside main()
    uploaded_file,    \* value of st.file_uploader: [name, bytes] or NoFile
    jd_widget,        \* text held by the "Job Description" text area
    button,           \* TRUE in the run triggered by clicking "Analyze Resume"
    disk,             \* transient files: path |-> bytes
    uploads,          \* names of all files the user has uploaded so far
    docs,             \* result of load_resume_docs in this run
    decoderCalls,     \* loader.load() calls made in this run
    ui,               \* widgets rendered by this run, in order
    jd_text,          \* main's local jd_text
    formatted_prompt, \* main's local formatted_prompt
    llmCalls,         \* llm.invoke calls made in this run
    content,          \* response.content
    resume_info,      \* main's local resume_info
    comparison,       \* main's local comparison
    matched_section,  \* main's local matched_section
    missing_section,  \* main's local missing_section
    extra_section,    \* main's local extra_section
    score_section,    \* main's local score_section
    exception,        \* exception that ended this run, or "none"
    trace,            \* pipeline stages this run has entered, in order
    clean_in,         \* argument of a stand-alone clean_text_block call
    clean_out         \* its result

vars == <<pc, uploaded_file, jd_widget, button, disk, uploads, docs, decoderCalls,
          ui, jd_text, formatted_prompt, llmCalls, content, resume_info, comparison,
          matched_section, missing_section, extra_section, score_section,
          exception, trace, clean_in, clean_out>>

(***************************************************************************)
(* Bounds of the model.                                                    *)
(***************************************************************************)
\* longest LLM response, counted in chunks (a chunk is the heading, a marker
\* or one character of text)
MaxChunks == 5
\* most text segments a decoder returns
MaxDocs == 2
\* longest argument of the stand-alone clean_text_block call, in characters
MaxCleanLen == 4

(***************************************************************************)
(* Python values.                                                          *)
(***************************************************************************)
\* None, for a variable that otherwise holds text
None == <<"None">>
\* None, for the variable docs (which otherwise holds a list of texts)
NoDocs == <<None>>
\* st.file_uploader's None
NoFile == [name |-> <<>>, bytes |-> 0]
\* the result slot of a subscript that raised IndexError
IndexError == <<"IndexError">>

\* str.isspace characters of the model's alphabet
Whitespace == {" ", "\t", "\n"}

Min(S) == CHOOSE i \in S : \A j \in S : i <= j

\* s.find(sub), 1-based; 0 when sub does not occur in s
Find(s, sub) ==
    LET idx == {i \in 1..(Len(s) - Len(sub) + 1) : SubSeq(s, i, i + Len(sub) - 1) = sub}
    IN  IF idx = {} THEN 0 ELSE Min(idx)

\* sub in s
Contains(s, sub) == Find(s, sub) /= 0

\* s.endswith(suffix)
EndsWith(s, suffix) ==
    /\ Len(s) >= Len(suffix)
    /\ SubSeq(s, Len(s) - Len(suffix) + 1, Len(s)) = suffix

\* s.split(sep): every non-overlapping occurrence, left to right
RECURSIVE Split(_, _)
Split(s, sep) ==
    LET i == Find(s, sep)
    IN  IF i = 0 THEN <<s>>
        ELSE <<SubSeq(s, 1, i - 1)>> \o Split(SubSeq(s, i + Len(sep), Len(s)), sep)

\* s.split(sep, 1): the first occurrence only
SplitOnce(s, sep) ==
    LET i == Find(s, sep)
    IN  IF i = 0 THEN <<s>>
        ELSE <<SubSeq(s, 1, i - 1), SubSeq(s, i + Len(sep), Len(s))>>

\* s.replace(old, "")
RECURSIVE Remove(_, _)
Remove(s, old) ==
    LET i == Find(s, old)
    IN  IF i = 0 THEN s
        ELSE SubSeq(s, 1, i - 1) \o Remove(SubSeq(s, i + Len(old), Len(s)), old)

RECURSIVE LStrip(_, _)
LStrip(s, chars) ==
    IF s /= <<>> /\ Head(s) \in chars THEN LStrip(Tail(s), chars) ELSE s

RECURSIVE RStrip(_, _)
RStrip(s, chars) ==
    IF s /= <<>> /\ s[Len(s)] \in chars THEN RStrip(SubSeq(s, 1, Len(s) - 1), chars) ELSE s

\* s.strip(chars); s.strip() is Strip(s, Whitespace)
Strip(s, chars) == RStrip(LStrip(s, chars), chars)

\* s.splitlines(): no empty last line after a final line break
RECURSIVE SplitLines(_)
SplitLines(s) ==
    IF s = <<>> THEN <<>>
    ELSE LET i == Find(s, <<"\n">>)
         IN  IF i = 0 THEN <<s>>
             ELSE <<SubSeq(s, 1, i - 1)>> \o SplitLines(SubSeq(s, i + 1, Len(s)))

\* sep.join(parts)
RECURSIVE Join(_, _)
Join(parts, sep) ==
    IF parts = <<>> THEN <<>>
    ELSE IF Len(parts) = 1 THEN parts[1]
    ELSE parts[1] \o sep \o Join(Tail(parts), sep)

\* [f(x) for x in xs if keep(x)] for the two list comprehensions of the source
RECURSIVE CleanLines(_)
CleanLines(lines) ==
    IF lines = <<>> THEN <<>>
    ELSE (IF Strip(Head(lines), Whitespace) /= <<>>
            THEN <<Strip(Head(lines), {" ", "-", "BULLET"})>>
            ELSE <<>>) \o CleanLines(Tail(lines))

\* the markdown header marks clean_text_block removes, in the order it removes them
Hashes3 == <<"#", "#", "#">>
Hashes2 == <<"#", "#">>

clean_text_block(text) ==
    LET stripped == Strip(Remove(Remove(text, Hashes3), Hashes2), Whitespace)
    IN  Join(CleanLines(SplitLines(stripped)), <<"\n">>)

\* all sequences over S of length 0..n
RECURSIVE SeqsUpTo(_, _)
SeqsUpTo(S, n) ==
    IF n = 0 THEN {<<>>}
    ELSE LET shorter == SeqsUpTo(S, n - 1)
         IN  shorter \cup {Append(s, x) : s \in {t \in shorter : Len(t) = n - 1}, x \in S}


(***************************************************************************)
(* Literals of the source.                                                 *)
(***************************************************************************)
PdfExt == <<".", "p", "d", "f">>
DocxExt == <<".", "d", "o", "c", "x">>
TxtExt == <<".", "t", "x", "t">>

\* "### <U+1F50D> Resume vs Job Description Skills"
Heading == <<"#", "#", "#", " ", "Q">>

\* the four emoji markers, in the order main() looks for them
Markers == <<"CHECK", "CROSS", "BULB", "CHART">>

\* the sub-headers main() renders above the four panels
PanelTitles == <<"CHECK Matching Skills", "CROSS Missing Skills",
                 "BULB Extra Skills", "CHART Match Score">>

\* st.success / st.error / st.warning / st.info
PanelKinds == <<"success", "error", "warning", "info">>

\* the value main() substitutes for an empty job description
Sentinel == <<"No JD provided">>

\* PROMPT_TEMPLATE up to "{text}", between "{text}" and "{jd_text}", and after it
TemplateHead == <<"TEMPLATE_HEAD">>
TemplateMid == <<"TEMPLATE_MID">>
TemplateTail == <<"\n">>

\* preview_text keeps the first 4000 characters
PreviewChars == 4000

UnsupportedMsg == [kind |-> "error", body |-> <<"Unsupported file type.">>]
ResumeHeader == [kind |-> "markdown", body |-> <<"## PIN Extracted Resume Information">>]
ComparisonHeader == [kind |-> "markdown", body |-> <<"#", "#", " ", "Q">>]
JdInput == [kind |-> "text_area", body |-> <<"Job Description">>]
AnalyzeButton == [kind |-> "button", body |-> <<"Analyze Resume">>]
PreviewArea(text) == [kind |-> "preview", body |-> text]

(***************************************************************************)
(* Inputs.                                                                 *)
(***************************************************************************)
\* "cv.PDF" passes st.file_uploader's case-insensitive type filter
FileNames == {<<"c", "v">> \o PdfExt, <<"c", "v">> \o DocxExt, <<"c", "v">> \o TxtExt,
              <<"c", "v", ".", "P", "D", "F">>}
FileBytes == {1, 2}
PageContents == {<<"r">>, <<>>}
DocLists == SeqsUpTo(PageContents, MaxDocs)
JDs == {<<>>, <<"j">>, <<" ">>}

RECURSIVE Flatten(_)
Flatten(chunks) == IF chunks = <<>> THEN <<>> ELSE Head(chunks) \o Flatten(Tail(chunks))

\* every response of at most MaxChunks chunks
Chunks == {Heading, <<"CHECK">>, <<"CROSS">>, <<"BULB">>, <<"CHART">>, <<"a">>, <<"#">>}
ShortResponses == {Flatten(cs) : cs \in SeqsUpTo(Chunks, MaxChunks)}

\* the responses the prompt asks for: resume text, the heading, and the four
\* markers in order, each followed by its text
Texts == {<<>>, <<"a">>, <<" ", "-", " ", "a", "\n">>}
WellFormedResponses ==
    {t[1] \o Heading \o <<"CHECK">> \o t[2] \o <<"CROSS">> \o t[3]
          \o <<"BULB">> \o t[4] \o <<"CHART">> \o t[5] : t \in [1..5 -> Texts]}

\* comparisons in which some marker is repeated: the heading followed by any five
\* markers
RepeatedMarkerResponses ==
    {Heading \o m : m \in [1..(Len(Markers) + 1) -> {Markers[i] : i \in 1..Len(Markers)}]}

AllResponses == ShortResponses \cup WellFormedResponses \cup RepeatedMarkerResponses

\* a well-formed answer, an answer without the comparison, markers without the
\* heading, and a comparison that lacks two markers
SampleResponses ==
    { Flatten(<<<<"a">>, Heading, <<"CHECK", "a">>, <<"CROSS", "a">>, <<"BULB", "a">>, <<"CHART", "a">>>>),
      <<"a">>,
      <<"CHECK", "a", "CROSS">>,
      Flatten(<<Heading, <<"CHECK", "a", "BULB">>>>) }

CleanAlphabet == {"#", "-", "BULLET", " ", "\t", "\n", "a"}
CleanInputs == SeqsUpTo(CleanAlphabet, MaxCleanLen)

(***************************************************************************)
(* load_resume_docs                                                        *)
(***************************************************************************)
TempPath(name) == <<"t", "e", "m", "p", "_">> \o name

\* variant: the file is written only once a loader has been chosen
WriteUploadIfSupported(d, file) ==
    IF EndsWith(file.name, PdfExt) \/ EndsWith(file.name, DocxExt) \/ EndsWith(file.name, TxtExt)
      THEN [p \in DOMAIN d \cup {TempPath(file.name)} |->
              IF p = TempPath(file.name) THEN file.bytes ELSE d[p]]
      ELSE d

\* open(temp_path, "wb").write(...): creates or overwrites, touches nothing else
WriteUpload(d, file) ==
    [p \in DOMAIN d \cup {TempPath(file.name)} |->
        IF p = TempPath(file.name) THEN file.bytes ELSE d[p]]

\* variant: the PDF test ignores case
LoaderAnyCase(name) ==
    IF EndsWith(name, PdfExt) \/ EndsWith(name, <<".", "P", "D", "F">>) THEN "PyPDFLoader"
    ELSE IF EndsWith(name, DocxExt) THEN "Docx2txtLoader"
    ELSE IF EndsWith(name, TxtExt) THEN "TextLoader"
    ELSE "None"

\* the if / elif chain on the extension
Loader(name) ==
    IF EndsWith(name, PdfExt) THEN "PyPDFLoader"
    ELSE IF EndsWith(name, DocxExt) THEN "Docx2txtLoader"
    ELSE IF EndsWith(name, TxtExt) THEN "TextLoader"
    ELSE "None"

load_resume_docs ==
    /\ pc = "load"
    /\ disk' = WriteUpload(disk, uploaded_file)
    /\ trace' = Append(trace, "Loader")
    /\ IF Loader(uploaded_file.name) = "None"
         THEN /\ docs' = NoDocs
              /\ pc' = "check"
              /\ UNCHANGED <<decoderCalls, exception>>
         ELSE /\ decoderCalls' = decoderCalls + 1
              /\ \/ \E d \in DocLists :
                       /\ docs' = d
                       /\ pc' = "check"
                       /\ UNCHANGED exception
                 \/ /\ exception' = "LoaderError"
                    /\ pc' = "done"
                    /\ UNCHANGED docs
    /\ UNCHANGED <<uploaded_file, jd_widget, button, uploads, ui, jd_text,
                   formatted_prompt, llmCalls, content, resume_info, comparison,
                   matched_section, missing_section, extra_section, score_section,
                   clean_in, clean_out>>

(***************************************************************************)
(* main                                                                    *)
(***************************************************************************)
\* variant: docs is None
FalsyNoneOnly(d) == d = NoDocs

\* not docs
Falsy(d) == d = NoDocs \/ d = <<>>

\* "\n\n".join([d.page_content for d in docs])
FullText(d) == Join(d, <<"\n", "\n">>)

Take(s, n) == SubSeq(s, 1, IF Len(s) < n THEN Len(s) ELSE n)

\* variant: the job description is passed on as typed
JdSlotRaw(jd) == jd

\* jd_text if jd_text else "No JD provided"
JdSlot(jd) == IF jd /= <<>> THEN jd ELSE Sentinel

\* prompt.format(text=..., jd_text=...)
Format(text, jd) == TemplateHead \o text \o TemplateMid \o jd \o TemplateTail

\* the locals of main() before the script has assigned them
ResetLocals ==
    /\ docs' = NoDocs
    /\ decoderCalls' = 0
    /\ ui' = <<>>
    /\ jd_text' = None
    /\ formatted_prompt' = None
    /\ llmCalls' = 0
    /\ content' = None
    /\ resume_info' = None
    /\ comparison' = None
    /\ matched_section' = None
    /\ missing_section' = None
    /\ extra_section' = None
    /\ score_section' = None
    /\ exception' = "none"
    /\ trace' = <<>>

\* the user picks a file: Streamlit reruns the script
UploadFile ==
    /\ pc = "done"
    /\ \E n \in FileNames, b \in FileBytes :
          /\ uploaded_file' = [name |-> n, bytes |-> b]
          /\ uploads' = uploads \cup {n}
    /\ button' = FALSE
    /\ pc' = "load"
    /\ ResetLocals
    /\ UNCHANGED <<jd_widget, disk, clean_in, clean_out>>

\* the user clears the uploader: the rerun skips the whole "if uploaded_file" block
RemoveFile ==
    /\ pc = "done"
    /\ uploaded_file /= NoFile
    /\ uploaded_file' = NoFile
    /\ button' = FALSE
    /\ pc' = "done"
    /\ ResetLocals
    /\ UNCHANGED <<jd_widget, disk, uploads, clean_in, clean_out>>

\* the user edits the job description shown by the last run
EditJD ==
    /\ pc = "done"
    /\ \E i \in 1..Len(ui) : ui[i] = JdInput
    /\ \E j \in JDs : j /= jd_widget /\ jd_widget' = j
    /\ button' = FALSE
    /\ pc' = "load"
    /\ ResetLocals
    /\ UNCHANGED <<uploaded_file, disk, uploads, clean_in, clean_out>>

\* the user clicks the button shown by the last run
ClickAnalyze ==
    /\ pc = "done"
    /\ \E i \in 1..Len(ui) : ui[i] = AnalyzeButton
    /\ button' = TRUE
    /\ pc' = "load"
    /\ ResetLocals
    /\ UNCHANGED <<uploaded_file, jd_widget, disk, uploads, clean_in, clean_out>>

\* if not docs: st.error(...); return
Main_CheckDocs ==
    /\ pc = "check"
    /\ IF Falsy(docs)
         THEN /\ ui' = Append(ui, UnsupportedMsg)
              /\ pc' = "done"
         ELSE /\ pc' = "preview"
              /\ UNCHANGED ui
    /\ UNCHANGED <<uploaded_file, jd_widget, button, disk, uploads, docs, decoderCalls,
                   jd_text, formatted_prompt, llmCalls, content, resume_info, comparison,
                   matched_section, missing_section, extra_section, score_section,
                   exception, trace, clean_in, clean_out>>

\* the two expanders and the button
Main_Preview ==
    /\ pc = "preview"
    /\ ui' = ui \o <<PreviewArea(Take(FullText(docs), PreviewChars)), JdInput,
                      AnalyzeButton>>
    /\ jd_text' = jd_widget
    /\ pc' = IF button THEN "build" ELSE "done"
    /\ UNCHANGED <<uploaded_file, jd_widget, button, disk, uploads, docs, decoderCalls,
                   formatted_prompt, llmCalls, content, resume_info, comparison,
                   matched_section, missing_section, extra_section, score_section,
                   exception, trace, clean_in, clean_out>>

Main_BuildPrompt ==
    /\ pc = "build"
    /\ formatted_prompt' = Format(FullText(docs), JdSlot(jd_text))
    /\ trace' = Append(trace, "Builder")
    /\ pc' = "invoke"
    /\ UNCHANGED <<uploaded_file, jd_widget, button, disk, uploads, docs, decoderCalls,
                   ui, jd_text, llmCalls, content, resume_info, comparison,
                   matched_section, missing_section, extra_section, score_section,
                   exception, clean_in, clean_out>>

\* response = llm.invoke(formatted_prompt): the remote call answers or raises
llm_invoke(responses) ==
    /\ pc = "invoke"
    /\ llmCalls' = llmCalls + 1
    /\ trace' = Append(trace, "Client")
    /\ \/ \E r \in responses :
             /\ content' = r
             /\ pc' = "partition"
             /\ UNCHANGED exception
       \/ /\ exception' = "LLMError"
          /\ pc' = "done"
          /\ UNCHANGED content
    /\ UNCHANGED <<uploaded_file, jd_widget, button, disk, uploads, docs, decoderCalls,
                   ui, jd_text, formatted_prompt, resume_info, comparison,
                   matched_section, missing_section, extra_section, score_section,
                   clean_in, clean_out>>

\* variant: content.split(heading) without the limit of one split
SplitHeadingAll(c) ==
    IF Contains(c, Heading) THEN SubSeq(Split(c, Heading), 1, 2) ELSE <<c, None>>

\* content.split(heading, 1) when the heading occurs, else (content, None)
SplitHeading(c) ==
    IF Contains(c, Heading) THEN SplitOnce(c, Heading) ELSE <<c, None>>

Main_Partition ==
    /\ pc = "partition"
    /\ resume_info' = SplitHeading(content)[1]
    /\ comparison' = SplitHeading(content)[2]
    /\ trace' = Append(trace, "Partitioner")
    /\ pc' = "render"
    /\ UNCHANGED <<uploaded_file, jd_widget, button, disk, uploads, docs, decoderCalls,
                   ui, jd_text, formatted_prompt, llmCalls, content,
                   matched_section, missing_section, extra_section, score_section,
                   exception, clean_in, clean_out>>

\* variant: the subsection is extracted without testing for its marker
HasMarkerAlways(cmp, m) == TRUE

\* "<marker>" in comparison
HasMarker(cmp, m) == Contains(cmp, <<m>>)

\* variant: the second split is forgotten
RawSectionNoStop(cmp, i) ==
    LET parts == Split(cmp, <<Markers[i]>>)
    IN  IF Len(parts) < 2 THEN IndexError ELSE parts[2]

\* comparison.split(Markers[i])[1].split(Markers[i+1])[0]; for the score the
\* second split is absent
RawSection(cmp, i) ==
    LET parts == Split(cmp, <<Markers[i]>>)
    IN  IF Len(parts) < 2 THEN IndexError
        ELSE IF i < Len(Markers) THEN Split(parts[2], <<Markers[i + 1]>>)[1]
        ELSE parts[2]

\* the value main() computes for the i-th subsection: None when its "if" is false
Section(cmp, i) == IF HasMarker(cmp, Markers[i]) THEN RawSection(cmp, i) ELSE None

\* the first subsection whose subscript raises, or 0
Raises(cmp) ==
    LET bad == {i \in 1..Len(Markers) : Section(cmp, i) = IndexError}
    IN  IF bad = {} THEN 0 ELSE Min(bad)

\* the value the i-th local holds when the script stops
Local(cmp, i) ==
    IF Raises(cmp) /= 0 /\ i >= Raises(cmp) THEN None ELSE Section(cmp, i)

\* st.subheader + panel of the i-th subsection, if it is reached and present
Panel(cmp, i) ==
    IF Local(cmp, i) = None THEN <<>>
    ELSE << [kind |-> "subheader", body |-> <<PanelTitles[i]>>],
            [kind |-> PanelKinds[i], body |-> clean_text_block(Local(cmp, i))] >>

\* if comparison:
Truthy(cmp) == cmp /= None /\ cmp /= <<>>

Main_Render ==
    /\ pc = "render"
    /\ trace' = Append(trace, "Presentation")
    /\ pc' = "done"
    /\ IF Truthy(comparison)
         THEN /\ ui' = ui \o <<ResumeHeader, [kind |-> "markdown", body |-> resume_info],
                               ComparisonHeader>>
                          \o Panel(comparison, 1) \o Panel(comparison, 2)
                          \o Panel(comparison, 3) \o Panel(comparison, 4)
              /\ matched_section' = Local(comparison, 1)
              /\ missing_section' = Local(comparison, 2)
              /\ extra_section' = Local(comparison, 3)
              /\ score_section' = Local(comparison, 4)
              /\ exception' = IF Raises(comparison) /= 0 THEN "IndexError" ELSE "none"
         ELSE /\ ui' = ui \o <<ResumeHeader, [kind |-> "markdown", body |-> resume_info]>>
              /\ UNCHANGED <<matched_section, missing_section, extra_section,
                             score_section, exception>>
    /\ UNCHANGED <<uploaded_file, jd_widget, button, disk, uploads, docs, decoderCalls,
                   jd_text, formatted_prompt, llmCalls, content, resume_info, comparison,
                   clean_in, clean_out>>

\* a stand-alone call of clean_text_block
CleanCall ==
    /\ clean_out = None
    /\ clean_out' = clean_text_block(clean_in)
    /\ UNCHANGED <<pc, uploaded_file, jd_widget, button, disk, uploads, docs,
                   decoderCalls, ui, jd_text, formatted_prompt, llmCalls, content,
                   resume_info, comparison, matched_section, missing_section,
                   extra_section, score_section, exception, trace, clean_in>>

(***************************************************************************)
(* Specifications.                                                         *)
(***************************************************************************)
NoLocals ==
    /\ docs = NoDocs
    /\ decoderCalls = 0
    /\ ui = <<>>
    /\ jd_text = None
    /\ formatted_prompt = None
    /\ llmCalls = 0
    /\ content = None
    /\ resume_info = None
    /\ comparison = None
    /\ matched_section = None
    /\ missing_section = None
    /\ extra_section = None
    /\ score_section = None
    /\ exception = "none"
    /\ trace = <<>>

\* the session before the first upload
Init ==
    /\ pc = "done"
    /\ uploaded_file = NoFile
    /\ jd_widget = <<>>
    /\ button = FALSE
    /\ disk = [p \in {} |-> 0]
    /\ uploads = {}
    /\ NoLocals
    /\ clean_in = <<>>
    /\ clean_out = None

InvokeLLM == llm_invoke(SampleResponses)

Next ==
    \/ UploadFile
    \/ RemoveFile
    \/ EditJD
    \/ ClickAnalyze
    \/ load_resume_docs
    \/ Main_CheckDocs
    \/ Main_Preview
    \/ Main_BuildPrompt
    \/ InvokeLLM
    \/ Main_Partition
    \/ Main_Render

Spec == Init /\ [][Next]_vars

\* the script right after "Analyze Resume" was clicked on cv.txt: the resume is
\* loaded, the prompt is built and llm.invoke is about to be called
AnalyzedFile == [name |-> <<"c", "v">> \o TxtExt, bytes |-> 1]
AnalyzedDocs == <<<<"r">>>>

InitPartition ==
    /\ pc = "invoke"
    /\ uploaded_file = AnalyzedFile
    /\ jd_widget = <<"j">>
    /\ button = TRUE
    /\ disk = WriteUpload([p \in {} |-> 0], AnalyzedFile)
    /\ uploads = {AnalyzedFile.name}
    /\ docs = AnalyzedDocs
    /\ decoderCalls = 1
    /\ ui = <<PreviewArea(FullText(AnalyzedDocs)), JdInput, AnalyzeButton>>
    /\ jd_text = <<"j">>
    /\ formatted_prompt = Format(FullText(AnalyzedDocs), <<"j">>)
    /\ llmCalls = 0
    /\ content = None
    /\ resume_info = None
    /\ comparison = None
    /\ matched_section = None
    /\ missing_section = None
    /\ extra_section = None
    /\ score_section = None
    /\ exception = "none"
    /\ trace = <<"Loader", "Builder">>
    /\ clean_in = <<>>
    /\ clean_out = None

InvokeLLMAny == llm_invoke(AllResponses)

NextPartition ==
    \/ InvokeLLMAny
    \/ Main_Partition
    \/ Main_Render

\* lines 133-172 of main() on every response of AllResponses
SpecPartition == InitPartition /\ [][NextPartition]_vars

InitClean ==
    /\ pc = "done"
    /\ uploaded_file = NoFile
    /\ jd_widget = <<>>
    /\ button = FALSE
    /\ disk = [p \in {} |-> 0]
    /\ uploads = {}
    /\ NoLocals
    /\ clean_in \in CleanInputs
    /\ clean_out = None

NextClean == CleanCall

\* clean_text_block on every text up to MaxCleanLen characters
SpecClean == InitClean /\ [][NextClean]_vars

(***************************************************************************)
(* Vocabulary of the properties.                                           *)
(***************************************************************************)
Count(s, c) == Cardinality({i \in 1..Len(s) : s[i] = c})
Places(s, c) == {i \in 1..Len(s) : s[i] = c}
Pos(s, c) == Min(Places(s, c))

\* the script has run to the end of main()
Rendered == pc = "done" /\ trace /= <<>> /\ trace[Len(trace)] = "Presentation"

HeadingAt == Find(content, Heading)
BeforeHeading == SubSeq(content, 1, HeadingAt - 1)
AfterHeading == SubSeq(content, HeadingAt + Len(Heading), Len(content))

Locals == <<matched_section, missing_section, extra_section, score_section>>

\* widgets of the analysis: everything main() renders after llm.invoke
AnalysisWidget(w) ==
    \/ w.kind \in {"markdown", "subheader", "success", "warning", "info"}
    \/ w.kind = "error" /\ w /= UnsupportedMsg
AnalysisRendered == \E i \in 1..Len(ui) : AnalysisWidget(ui[i])
PanelCount == Cardinality({i \in 1..Len(ui) : ui[i].kind = "subheader"})
Shows(w) == \E i \in 1..Len(ui) : ui[i] = w
PreviewShown == \E i \in 1..Len(ui) : ui[i].kind = "preview"

SupportedName(name) ==
    EndsWith(name, PdfExt) \/ EndsWith(name, DocxExt) \/ EndsWith(name, TxtExt)

(***************************************************************************)
(* Properties.                                                             *)
(***************************************************************************)
\* every marker occurs exactly once in cmp, and they occur in the order of Markers
EachOnceInOrder(cmp) ==
    /\ \A i \in 1..Len(Markers) : Count(cmp, Markers[i]) = 1
    /\ \A i \in 1..(Len(Markers) - 1) : Pos(cmp, Markers[i]) < Pos(cmp, Markers[i + 1])

\* the text between the marker at place p and the place q of the next one
Between(cmp, p, q) == SubSeq(cmp, p + 1, q - 1)

\* the subsections are the texts between the markers at places p1 < p2 < p3 < p4
SectionsAt(cmp, p1, p2, p3, p4) ==
    /\ matched_section = Between(cmp, p1, p2)
    /\ missing_section = Between(cmp, p2, p3)
    /\ extra_section = Between(cmp, p3, p4)
    /\ score_section = Between(cmp, p4, Len(cmp) + 1)

\* C1 as stated: for every response that contains the comparison heading followed by
\* the four markers in order, the resume section is the text before the heading and
\* the four subsections are the texts between a marker and the next one (for some
\* choice of the occurrences that are in order).
C1_RoundTripAnyResponse ==
    (Rendered /\ Contains(content, Heading)) =>
        LET cmp == AfterHeading
        IN  (\E p1 \in Places(cmp, Markers[1]), p2 \in Places(cmp, Markers[2]),
                p3 \in Places(cmp, Markers[3]), p4 \in Places(cmp, Markers[4]) :
                    p1 < p2 /\ p2 < p3 /\ p3 < p4)
            => /\ resume_info = BeforeHeading
               /\ \E p1 \in Places(cmp, Markers[1]), p2 \in Places(cmp, Markers[2]),
                     p3 \in Places(cmp, Markers[3]), p4 \in Places(cmp, Markers[4]) :
                        p1 < p2 /\ p2 < p3 /\ p3 < p4 /\ SectionsAt(cmp, p1, p2, p3, p4)

\* C1 amended: for every response in which, after the first occurrence of the
\* comparison heading, each of the four markers occurs exactly once and they occur
\* in the order CHECK, CROSS, BULB, CHART, the resume section is the text before
\* that heading and each subsection is exactly the text between its marker and the
\* next marker (for CHART, the text after it).
C1_RoundTripWellFormed ==
    (Rendered /\ Contains(content, Heading) /\ EachOnceInOrder(AfterHeading)) =>
        LET cmp == AfterHeading
        IN  /\ resume_info = BeforeHeading
            /\ comparison = cmp
            /\ SectionsAt(cmp, Pos(cmp, Markers[1]), Pos(cmp, Markers[2]),
                          Pos(cmp, Markers[3]), Pos(cmp, Markers[4]))

\* a well-formed response with text in front of the heading and inside a subsection
C1_Witness ==
    /\ Rendered
    /\ Contains(content, Heading)
    /\ EachOnceInOrder(AfterHeading)
    /\ Len(AfterHeading) > Len(Markers)
    /\ \E i \in 1..Len(Markers) : Locals[i] /= <<>> /\ Locals[i] /= None

\* the place of the first marker after place p in cmp, or the end of cmp
NextMarkerPlace(cmp, p) ==
    LET later == {q \in (p + 1)..Len(cmp) : \E j \in 1..Len(Markers) : cmp[q] = Markers[j]}
    IN  IF later = {} THEN Len(cmp) + 1 ELSE Min(later)

\* exactly the k-th marker is absent from cmp; the others occur once, in order
OnlyAbsent(cmp, k) ==
    /\ Count(cmp, Markers[k]) = 0
    /\ \A i \in 1..Len(Markers) \ {k} : Count(cmp, Markers[i]) = 1
    /\ \A i, j \in 1..Len(Markers) \ {k} :
          i < j => Pos(cmp, Markers[i]) < Pos(cmp, Markers[j])

\* C2: when exactly one marker is absent from the comparison text, its subsection is
\* not rendered and every other subsection holds what it would hold with the absent
\* marker in place: the text between its own marker and the next marker.
C2_AbsentMarkerFrame ==
    \A k \in 1..Len(Markers) :
        (Rendered /\ Truthy(comparison) /\ OnlyAbsent(comparison, k)) =>
            /\ Locals[k] = None
            /\ ~Shows([kind |-> "subheader", body |-> <<PanelTitles[k]>>])
            /\ \A i \in 1..Len(Markers) \ {k} :
                  LET p == Pos(comparison, Markers[i])
                  IN  Locals[i] = Between(comparison, p, NextMarkerPlace(comparison, p))

\* the characters no line of a cleaned block may begin with
BadLineStart == {"#", "-", "BULLET"} \cup Whitespace

\* C3: no line of the text clean_text_block returns begins with '#', '-', the bullet
\* or a whitespace character.
C3_CleanPostcondition ==
    clean_out /= None =>
        \A i \in 1..Len(Split(clean_out, <<"\n">>)) :
            LET line == Split(clean_out, <<"\n">>)[i]
            IN  line = <<>> \/ line[1] \notin BadLineStart

\* C4: for a file name that ends in none of .pdf, .docx, .txt, load_resume_docs
\* returns None without calling a decoder, and main() shows "Unsupported file type."
\* and stops: no preview, no prompt, no LLM call, no exception.
C4_UnsupportedHalts ==
    (uploaded_file /= NoFile /\ ~SupportedName(uploaded_file.name)) =>
        /\ pc \in {"load", "check", "done"}
        /\ decoderCalls = 0
        /\ docs = NoDocs
        /\ ~PreviewShown
        /\ formatted_prompt = None
        /\ llmCalls = 0
        /\ exception = "none"
        /\ pc = "done" => ui = <<UnsupportedMsg>>
        /\ pc /= "done" => ui = <<>>

C4_Witness ==
    /\ uploaded_file /= NoFile
    /\ ~SupportedName(uploaded_file.name)
    /\ pc = "done"
    /\ ui = <<UnsupportedMsg>>
    /\ TempPath(uploaded_file.name) \in DOMAIN disk

\* C5: whatever the response, partitioning and rendering raise nothing, the
\* resume-info block is always rendered, and between zero and four panels are.
C5_NoCrash ==
    /\ exception /= "IndexError"
    /\ Rendered =>
          /\ exception = "none"
          /\ resume_info /= None
          /\ \E i \in 1..(Len(ui) - 1) :
                ui[i] = ResumeHeader /\ ui[i + 1] = [kind |-> "markdown", body |-> resume_info]
          /\ PanelCount \in 0..Len(Markers)
          /\ PanelCount = Cardinality({i \in 1..Len(Markers) : Locals[i] /= None})

\* a malformed comparison: a marker repeated and CROSS in front of CHECK
C5_Witness ==
    /\ Rendered
    /\ Truthy(comparison)
    /\ Count(comparison, "CHECK") = 2
    /\ Count(comparison, "CROSS") = 1
    /\ Pos(comparison, "CROSS") < Pos(comparison, "CHECK")
    /\ PanelCount = 2

\* C6: the prompt is the template filled with the full resume text and the job
\* description slot, and depends on nothing else; the slot holds "No JD provided"
\* when the job description is empty and the job description itself otherwise.
C6_PromptOfPair ==
    formatted_prompt /= None =>
        /\ jd_text = jd_widget
        /\ formatted_prompt =
              TemplateHead \o Join(docs, <<"\n", "\n">>) \o TemplateMid
                 \o (IF jd_text = <<>> THEN Sentinel ELSE jd_text) \o TemplateTail

C6_Witness ==
    /\ formatted_prompt /= None
    /\ jd_text = <<>>
    /\ Len(docs) = 2
    /\ Contains(formatted_prompt, Sentinel)

Stages == <<"Loader", "Builder", "Client", "Partitioner", "Presentation">>

\* C7: the stages of a run occur in the order Loader, Builder, Client, Partitioner,
\* Presentation; the LLM is called at most once, and only after a non-empty load and
\* a click; nothing of the analysis is rendered before the call has returned, nor
\* when it fails.
C7_Sequential ==
    /\ Len(trace) <= Len(Stages)
    /\ trace = SubSeq(Stages, 1, Len(trace))
    /\ llmCalls <= 1
    /\ llmCalls = 1 => (button /\ docs /= NoDocs /\ docs /= <<>> /\ formatted_prompt /= None)
    /\ AnalysisRendered => (llmCalls = 1 /\ content /= None /\ exception /= "LLMError")
    /\ exception = "LLMError" => (pc = "done" /\ ~AnalysisRendered /\ content = None)

C7_Witness == pc = "done" /\ trace = Stages /\ AnalysisRendered /\ PanelCount = 4

\* C8: without the heading the whole response is the resume info and no comparison
\* header or panel is rendered, whatever markers it holds; with the heading the
\* response is split at its first occurrence only.
C8_HeadingSplit ==
    (pc \in {"render", "done"} /\ content /= None) =>
        IF ~Contains(content, Heading)
          THEN /\ resume_info = content
               /\ comparison = None
               /\ Rendered =>
                     /\ Shows([kind |-> "markdown", body |-> content])
                     /\ ~Shows(ComparisonHeader)
                     /\ PanelCount = 0
                     /\ Locals = <<None, None, None, None>>
          ELSE /\ resume_info \o Heading \o comparison = content
               /\ ~Contains(resume_info \o SubSeq(Heading, 1, Len(Heading) - 1), Heading)

\* the heading occurs twice and the comparison is rendered
C8_Witness ==
    /\ Rendered
    /\ Count(content, "Q") = 2
    /\ Contains(comparison, Heading)
    /\ Shows(ComparisonHeader)

\* the transient paths of a set of names
TempPaths(names) == {TempPath(n) : n \in names}

\* the file being loaded is written by the step load_resume_docs is about to take
Pending == IF pc = "load" THEN {uploaded_file.name} ELSE {}

DiskIsUploads ==
    /\ TempPaths(uploads \ Pending) \subseteq DOMAIN disk
    /\ DOMAIN disk \subseteq TempPaths(uploads)
    /\ (pc /= "load" /\ uploaded_file /= NoFile) =>
          /\ TempPath(uploaded_file.name) \in DOMAIN disk
          /\ disk[TempPath(uploaded_file.name)] = uploaded_file.bytes

\* C9: after load_resume_docs the transient files are exactly the temp_<filename>
\* paths of all files uploaded so far (unsupported ones included), the path of the
\* current file holds its bytes, and no step removes a transient file.
C9_TransientFilesStay ==
    /\ []DiskIsUploads
    /\ [][DOMAIN disk \subseteq DOMAIN disk']_vars

\* an unsupported upload and a later upload are both on disk
C9_Witness ==
    /\ pc = "done"
    /\ Cardinality(DOMAIN disk) >= 2
    /\ TempPath(<<"c", "v", ".", "P", "D", "F">>) \in DOMAIN disk
    /\ uploaded_file /= NoFile
    /\ disk[TempPath(uploaded_file.name)] = 2

\* C10: for a supported extension whose decoder returned without raising, main()
\* does not show "Unsupported file type." and goes on to the preview, whatever
\* list the decoder returned.
C10_SupportedNeverUnsupported ==
    (/\ uploaded_file /= NoFile
     /\ SupportedName(uploaded_file.name)
     /\ exception /= "LoaderError"
     /\ pc \notin {"load", "check", "preview"}) =>
        /\ ~Shows(UnsupportedMsg)
        /\ PreviewShown

====
